---- MODULE Spec2Model ----
(***************************************************************************)
(* Model of package argparse (src/argparse.go): the command tree built by  *)
(* NewParser / NewCommand / Flag / String / List / Selector, Parser.Parse, *)
(* Command.Happened and Command.Usage.                                     *)
(*                                                                         *)
(* Strings are sequences of one-character strings, so that prefixes and    *)
(* letters of a token can be inspected: "--tag" is <<"-","-","t","a","g">> *)
(* and the empty string is <<>>.                                           *)
(*                                                                         *)
(* argparse.go calls help, addArg, parse, arg.usage, addToLastLine and     *)
(* uses the types arg and subCommandError, none of which it defines.       *)
(* Those are modelled from spec.md (sections 3, 4.1, 4.2, 4.3, 7).         *)
(***************************************************************************)
EXTENDS Integers, Sequences, FiniteSets, TLC

VARIABLES cmds, pc, mem, input, inner, result, usage, decls, spent, reached, events

vars == <<cmds, pc, mem, input, inner, result, usage, decls, spent, reached, events>>

\* ------------------------------------------------------------------ bounds
\* size of one run: declarations made on the tree (commands and arguments),
\* plus words of the token list parsed (a token, or a token and its value),
\* plus calls of Usage
MaxSize == 4

\* ----------------------------------------------------------------- strings
Str1(a) == <<a>>
Str2(a, b) == <<a, b>>
Str3(a, b, c) == <<a, b, c>>
Dash(s) == <<"-">> \o s
DashDash(s) == <<"-", "-">> \o s
Empty == <<>>

HasPrefix(s, p) == Len(s) >= Len(p) /\ SubSeq(s, 1, Len(p)) = p

\* the nil pointer / nil interface value
Nil == [kind |-> "nil"]

\* --------------------------------------------------------------- the types
\* Options{Required, Validate, Help}; Validate is nil or names a validator
NoValidate == "nil"
MkOptions(req, val) == [kind |-> "Options", Required |-> req, Validate |-> val, Help |-> Empty]

\* The one validator the callers of this model pass: it fails, with the
\* error below, exactly when one of the values handed to it is "y".
ValidatorError == [kind |-> "validatorError"]
RunValidate(v, values) ==
    IF v = "rejectY" /\ \E k \in 1..Len(values) : values[k] = Str1("y")
    THEN ValidatorError ELSE Nil

\* Command{name, description, args, commands, parsed, parent}; a *Command is
\* an index into cmds, 0 is the nil pointer, 1 is the Parser's own Command.
Root == 1
Nodes(cs) == 1..Len(cs)

RECURSIVE SeqSum(_)
SeqSum(s) == IF s = <<>> THEN 0 ELSE Head(s) + SeqSum(Tail(s))

NumArgs(cs) == SeqSum([k \in 1..Len(cs) |-> Len(cs[k].args)])
NumDecls(cs) == (Len(cs) - 1) + NumArgs(cs)

\* ------------------------------------------------------- building the tree
\* help(): declared outside argparse.go and not described by spec.md;
\* it is taken to add nothing to the tree.
help(cs, o) == cs

\* addArg (spec.md 4.1): well-formed names and no name shared with a
\* descriptor visible at the scope (the node's own and its ancestors').
RECURSIVE UpChain(_, _)
UpChain(cs, o) == IF o = 0 THEN <<>> ELSE <<o>> \o UpChain(cs, cs[o].parent)

RECURSIVE Flatten(_)
Flatten(ss) == IF ss = <<>> THEN <<>> ELSE Head(ss) \o Flatten(Tail(ss))

\* descriptors visible at o, innermost scope first, as <<owner, index>>
VisibleRefs(cs, o) ==
    LET up == UpChain(cs, o)
    IN Flatten([k \in 1..Len(up) |-> [j \in 1..Len(cs[up[k]].args) |-> <<up[k], j>>]])

ArgAt(cs, ref) == cs[ref[1]].args[ref[2]]

CanAddArg(cs, o, a) ==
    /\ a.lname # Empty
    /\ Len(a.sname) <= 1
    /\ \A k \in 1..Len(VisibleRefs(cs, o)) :
          LET v == ArgAt(cs, VisibleRefs(cs, o)[k])
          IN /\ v.lname # a.lname
             /\ (a.sname # Empty => v.sname # a.sname)

addArg(cs, o, a) ==
    [cs EXCEPT ![o].args = Append(@, a)]

NewParser(name, description) ==
    LET p == [name |-> name, description |-> description, args |-> <<>>,
              commands |-> <<>>, parsed |-> FALSE, parent |-> 0]
    IN help(<<p>>, Root)

NewCommandParsedTrue(cs, o, name, description) ==
    LET c == [name |-> name, description |-> description, args |-> <<>>,
              commands |-> <<>>, parsed |-> TRUE, parent |-> o]
        id == Len(cs) + 1
    IN [help(Append(cs, c), id) EXCEPT ![o].commands = Append(@, id)]

NewCommand(cs, o, name, description) ==
    LET c == [name |-> name, description |-> description, args |-> <<>>,
              commands |-> <<>>, parsed |-> FALSE, parent |-> o]
        id == Len(cs) + 1
    IN [help(Append(cs, c), id) EXCEPT ![o].commands = Append(@, id)]

\* arg{result, sname, lname, size, opts, unique, selector}: result is the
\* cell the caller holds a pointer to, type the Go type of that cell, and
\* parsed whether the descriptor was matched (spec.md 4.3).
FlagSizeTwo(cs, o, short, long, opts) ==
    addArg(cs, o, [type |-> "bool", result |-> FALSE, sname |-> short, lname |-> long,
                   size |-> 2, opts |-> opts, unique |-> TRUE, selector |-> Nil,
                   parsed |-> FALSE, fileFlag |-> 0, filePerm |-> 0])

Flag(cs, o, short, long, opts) ==
    addArg(cs, o, [type |-> "bool", result |-> FALSE, sname |-> short, lname |-> long,
                   size |-> 1, opts |-> opts, unique |-> TRUE, selector |-> Nil,
                   parsed |-> FALSE, fileFlag |-> 0, filePerm |-> 0])

StringNoOpts(cs, o, short, long, opts) ==
    addArg(cs, o, [type |-> "string", result |-> Empty, sname |-> short, lname |-> long,
                   size |-> 2, opts |-> Nil, unique |-> TRUE, selector |-> Nil,
                   parsed |-> FALSE, fileFlag |-> 0, filePerm |-> 0])

String(cs, o, short, long, opts) ==
    addArg(cs, o, [type |-> "string", result |-> Empty, sname |-> short, lname |-> long,
                   size |-> 2, opts |-> opts, unique |-> TRUE, selector |-> Nil,
                   parsed |-> FALSE, fileFlag |-> 0, filePerm |-> 0])

\* the zero os.File, and the file os.OpenFile hands back
NoFile == [kind |-> "os.File", path |-> Empty, flag |-> 0, perm |-> 0]

File(cs, o, short, long, flag, perm, opts) ==
    addArg(cs, o, [type |-> "file", result |-> NoFile, sname |-> short, lname |-> long,
                   size |-> 2, opts |-> opts, unique |-> TRUE, selector |-> Nil,
                   parsed |-> FALSE, fileFlag |-> flag, filePerm |-> perm])

ListUnique(cs, o, short, long, opts) ==
    addArg(cs, o, [type |-> "list", result |-> <<>>, sname |-> short, lname |-> long,
                   size |-> 2, opts |-> opts, unique |-> TRUE, selector |-> Nil,
                   parsed |-> FALSE, fileFlag |-> 0, filePerm |-> 0])

List(cs, o, short, long, opts) ==
    addArg(cs, o, [type |-> "list", result |-> <<>>, sname |-> short, lname |-> long,
                   size |-> 2, opts |-> opts, unique |-> FALSE, selector |-> Nil,
                   parsed |-> FALSE, fileFlag |-> 0, filePerm |-> 0])

SelectorNoOpts(cs, o, short, long, options, opts) ==
    addArg(cs, o, [type |-> "string", result |-> Empty, sname |-> short, lname |-> long,
                   size |-> 2, opts |-> Nil, unique |-> TRUE,
                   selector |-> [kind |-> "ptr", to |-> options],
                   parsed |-> FALSE, fileFlag |-> 0, filePerm |-> 0])

SelectorNoDomain(cs, o, short, long, options, opts) ==
    addArg(cs, o, [type |-> "string", result |-> Empty, sname |-> short, lname |-> long,
                   size |-> 2, opts |-> opts, unique |-> TRUE, selector |-> Nil,
                   parsed |-> FALSE, fileFlag |-> 0, filePerm |-> 0])

Selector(cs, o, short, long, options, opts) ==
    addArg(cs, o, [type |-> "string", result |-> Empty, sname |-> short, lname |-> long,
                   size |-> 2, opts |-> opts, unique |-> TRUE, selector |-> [kind |-> "ptr", to |-> options],
                   parsed |-> FALSE, fileFlag |-> 0, filePerm |-> 0])

Happened(cs, o) == cs[o].parsed

\* ------------------------------------------------------------- the matcher
\* (spec.md 4.2; the code is outside argparse.go)

\* the error values of spec.md 7
subCommandError(cmd) == [kind |-> "subCommandError", cmd |-> cmd]
MissingRequiredArgument(scope, long) ==
    [kind |-> "missingRequiredArgument", scope |-> scope, name |-> long]
InvalidSelectorValue(scope, long, value) ==
    [kind |-> "invalidSelectorValue", scope |-> scope, name |-> long, value |-> value]
ResourceOpenFailed(cause) == [kind |-> "resourceOpenFailed", cause |-> cause]
TooManyArguments == [kind |-> "tooManyArguments"]

\* the capability "open the resource at path with these flags and
\* permission bits" (spec.md 6): in the world of this model the path "x"
\* can be opened and no other
OpenFile(path, flag, perm) ==
    IF path = <<"x">>
    THEN [err |-> Nil, file |-> [kind |-> "os.File", path |-> path, flag |-> flag, perm |-> perm]]
    ELSE [err |-> [kind |-> "os.PathError", path |-> path], file |-> NoFile]

\* rule 1: the first child command of n whose name is the token, or 0
matchCommand(cs, n, tok) ==
    LET hits == SelectSeq(cs[n].commands, LAMBDA c : cs[c].name = tok)
    IN IF hits = <<>> THEN 0 ELSE Head(hits)

\* the first descriptor visible at n (innermost first) with that long name /
\* that short name, as <<owner, index>>, or <<>>
lookupLong(cs, n, long) ==
    LET hits == SelectSeq(VisibleRefs(cs, n), LAMBDA r : ArgAt(cs, r).lname = long)
    IN IF hits = <<>> THEN <<>> ELSE Head(hits)

lookupShort(cs, n, letter) ==
    LET hits == SelectSeq(VisibleRefs(cs, n), LAMBDA r : ArgAt(cs, r).sname = <<letter>>)
    IN IF hits = <<>> THEN <<>> ELSE Head(hits)

IsLongForm(tok) == Len(tok) > 2 /\ HasPrefix(tok, <<"-", "-">>) /\ tok[3] # "-"
IsShortForm(tok) == Len(tok) = 2 /\ tok[1] = "-" /\ tok[2] # "-"
IsCombined(tok) == Len(tok) > 2 /\ tok[1] = "-" /\ tok[2] # "-"

Arity(a) == a.size - 1

\* rules 2-4: the descriptors the token at position i denotes at scope n, in
\* the order they are applied; <<>> when the token is unmatched
matchArgs(cs, n, buf, i) ==
    LET tok == buf[i]
        one(ref) == IF ref = <<>> THEN <<>>
                    ELSE IF i + Arity(ArgAt(cs, ref)) > Len(buf) THEN <<>>
                    ELSE <<ref>>
        letters == SubSeq(tok, 2, Len(tok))
        refs == [k \in 1..Len(letters) |-> lookupShort(cs, n, letters[k])]
    IN IF IsLongForm(tok) THEN one(lookupLong(cs, n, SubSeq(tok, 3, Len(tok))))
       ELSE IF IsShortForm(tok) THEN one(lookupShort(cs, n, tok[2]))
       ELSE IF IsCombined(tok)
            THEN IF \A k \in 1..Len(refs) :
                       refs[k] # <<>> /\ Arity(ArgAt(cs, refs[k])) = 0
                 THEN refs ELSE <<>>
       ELSE <<>>

\* -------------------------------------------------------- the parse engine
\* (spec.md 4.3; the code is outside argparse.go)
Blank(buf, i, count) ==
    [k \in 1..Len(buf) |-> IF k >= i /\ k < i + count THEN Empty ELSE buf[k]]

\* the accessor cell after a match: a repeatable descriptor appends, a
\* single one takes the new value (the last occurrence wins, as spec.md 9
\* recommends), a file one takes what the open capability hands back
writeCell(a, values) ==
    IF a.type = "bool" THEN TRUE
    ELSE IF a.type = "file" THEN OpenFile(values[1], a.fileFlag, a.filePerm).file
    ELSE IF a.type = "list"
         THEN IF a.unique THEN values ELSE a.result \o values
    ELSE values[1]

InDomain(a, values) ==
    a.selector = Nil \/ \E k \in 1..Len(a.selector.to) : a.selector.to[k] = values[1]

\* the matched descriptors refs[k..] are applied in turn
RECURSIVE applyMatches(_, _, _, _)
applyMatches(cs, refs, k, values) ==
    IF k > Len(refs) THEN [cmds |-> cs, err |-> Nil]
    ELSE LET ref == refs[k]
             a == ArgAt(cs, ref)
             cs1 == [cs EXCEPT ![ref[1]].args[ref[2]].result = writeCell(a, values),
                               ![ref[1]].args[ref[2]].parsed = TRUE]
             verr == IF a.opts = Nil \/ a.opts.Validate = NoValidate THEN Nil
                     ELSE RunValidate(a.opts.Validate, values)
             oerr == IF a.type = "file"
                     THEN OpenFile(values[1], a.fileFlag, a.filePerm).err ELSE Nil
         IN IF ~InDomain(a, values)
            THEN [cmds |-> cs, err |-> InvalidSelectorValue(ref[1], a.lname, values[1])]
            ELSE IF verr # Nil THEN [cmds |-> cs1, err |-> verr]
            ELSE IF oerr # Nil THEN [cmds |-> cs1, err |-> ResourceOpenFailed(oerr)]
            ELSE applyMatches(cs1, refs, k + 1, values)

\* after the scan of scope n; path and log are history: the scopes entered
\* and the tokens examined so far
checkInvariants(cs, buf, n, descended, path, log) ==
    LET missing == SelectSeq(cs[n].args,
                     LAMBDA a : a.opts # Nil /\ a.opts.Required /\ ~a.parsed)
        err == IF missing # <<>> THEN MissingRequiredArgument(n, Head(missing).lname)
               ELSE IF cs[n].commands # <<>> /\ ~descended THEN subCommandError(n)
               ELSE Nil
    IN [cmds |-> IF err = Nil THEN [cs EXCEPT ![n].parsed = TRUE] ELSE cs,
        buf |-> buf, err |-> err, path |-> path, log |-> log]

\* the scan of scope n from position i of the buffer
RECURSIVE parse(_, _, _, _, _)
parse(cs, buf, n, i, log) ==
    IF i > Len(buf) THEN checkInvariants(cs, buf, n, FALSE, <<n>>, log)
    ELSE IF buf[i] = Empty THEN parse(cs, buf, n, i + 1, log)
    ELSE IF matchCommand(cs, n, buf[i]) # 0
    THEN LET c == matchCommand(cs, n, buf[i])
             r == parse([cs EXCEPT ![n].parsed = TRUE], Blank(buf, i, 1), c, i + 1,
                        Append(log, [pos |-> i, scope |-> n, refs |-> <<>>, cmd |-> c]))
         IN IF r.err # Nil THEN [r EXCEPT !.path = <<n>> \o @]
            ELSE checkInvariants(r.cmds, r.buf, n, TRUE, <<n>> \o r.path, r.log)
    ELSE LET refs == matchArgs(cs, n, buf, i)
             count == 1 + Arity(ArgAt(cs, refs[1]))
             m == applyMatches(cs, refs, 1, SubSeq(buf, i + 1, i + count - 1))
             log1 == Append(log, [pos |-> i, scope |-> n, refs |-> refs, cmd |-> 0])
         IN IF refs = <<>> THEN parse(cs, buf, n, i + 1, log1)
            ELSE IF m.err # Nil
            THEN [cmds |-> m.cmds, err |-> m.err, path |-> <<n>>, log |-> log1,
                  buf |-> IF m.err.kind = "invalidSelectorValue" THEN buf
                          ELSE Blank(buf, i, count)]
            ELSE parse(m.cmds, Blank(buf, i, count), n, i + count, log1)

\* ------------------------------------------------------------ Parser.Parse
\* subargs := make([]string, len(args)); copy(subargs, args): memory holds
\* the caller's array and the working array, subargs refers to the latter
AliasArgs(m) == [ref |-> "caller", mem |-> m]

CopyArgs(m) == [ref |-> "sub", mem |-> [m EXCEPT !.sub = m.caller]]

UnparsedAll(subargs) == subargs

Unparsed(subargs) == SelectSeq(subargs, LAMBDA v : v # Empty)

ParseReturnLeftoverFirst(res, unparsed) ==
    IF Len(unparsed) > 0 THEN TooManyArguments ELSE res

ParseReturn(res, unparsed) ==
    IF res = Nil /\ Len(unparsed) > 0 THEN TooManyArguments ELSE res

Parse(cs, m) ==
    LET c == CopyArgs(m)
        r == parse(cs, c.mem[c.ref], Root, 1, <<>>)
        m2 == [c.mem EXCEPT ![c.ref] = r.buf]
    IN [cmds |-> r.cmds, mem |-> m2, inner |-> r.err, path |-> r.path, log |-> r.log,
        err |-> ParseReturn(r.err, Unparsed(m2[c.ref]))]

\* ----------------------------------------------------------- Command.Usage
Reverse(s) == [k \in 1..Len(s) |-> s[Len(s) + 1 - k]]

\* arg.usage() and addToLastLine are outside argparse.go: the text is kept
\* as the sequence of the pieces handed to addToLastLine, unwrapped
argUsage(a) == [sname |-> a.sname, lname |-> a.lname, size |-> a.size]

usageText(cs, o) ==
    LET up == UpChain(cs, o)
        arguments == Flatten([k \in 1..Len(up) |-> cs[up[k]].args])
        names == Reverse([k \in 1..Len(up) |-> cs[up[k]].name])
        chain == IF Len(cs[o].commands) > 0 THEN Append(names, <<"<Command>">>) ELSE names
    IN [chain |-> chain,
        usages |-> [k \in 1..Len(arguments) |-> argUsage(arguments[k])],
        description |-> cs[o].description,
        Commands |-> [k \in 1..Len(cs[o].commands) |->
                        [name |-> cs[cs[o].commands[k]].name,
                         description |-> cs[cs[o].commands[k]].description]],
        Arguments |-> [k \in 1..Len(arguments) |->
                        [sname |-> arguments[k].sname, lname |-> arguments[k].lname,
                         Help |-> IF arguments[k].opts # Nil THEN arguments[k].opts.Help
                                  ELSE Empty]]]

UsageOwnScope(cs, o, err) == usageText(cs, o)

RECURSIVE Usage(_, _, _)
Usage(cs, o, err) ==
    IF err # Nil /\ err.kind = "subCommandError" /\ err.cmd # 0
    THEN Usage(cs, err.cmd, Nil)
    ELSE usageText(cs, o)

\* ------------------------------------------------------------- the callers
ParserName == Str1("p")
Description == Str1("d")
CommandNames == {Str1("a"), Str1("b")}

X == Str1("x")
Y == Str1("y")

NameR == [sname |-> Str1("r"), lname |-> Str3("r", "e", "c")]
NameF == [sname |-> Str1("f"), lname |-> Str3("f", "r", "c")]
NameM == [sname |-> Str1("m"), lname |-> Str3("m", "o", "d")]
NameT == [sname |-> Str1("t"), lname |-> Str3("t", "a", "g")]
NameL == [sname |-> Empty, lname |-> Str3("l", "v", "l")]

FlagNames == {NameR, NameF}
StringNames == {NameM}
FileNames == {NameM}
ListNames == {NameT}
SelectorNames == {NameL}
Domain == <<X, Y>>

\* the words a caller may put on the command line, each with the long name
\* of the argument it is about (Empty: about none)
Words ==
    { [about |-> NameR.lname, toks |-> <<Dash(NameR.sname)>>],
      [about |-> NameR.lname, toks |-> <<Dash(NameR.sname \o NameF.sname)>>],
      [about |-> NameR.lname, toks |-> <<Dash(NameR.sname \o NameM.sname)>>],
      [about |-> NameF.lname, toks |-> <<DashDash(NameF.lname)>>],
      [about |-> NameM.lname, toks |-> <<DashDash(NameM.lname), X>>],
      [about |-> NameM.lname, toks |-> <<Dash(NameM.sname), Y>>],
      [about |-> NameM.lname, toks |-> <<DashDash(NameM.lname)>>],
      [about |-> NameT.lname, toks |-> <<DashDash(NameT.lname), X>>],
      [about |-> NameT.lname, toks |-> <<Dash(NameT.sname), Y>>],
      [about |-> NameL.lname, toks |-> <<DashDash(NameL.lname), X>>],
      [about |-> NameL.lname, toks |-> <<DashDash(NameL.lname), Y>>],
      [about |-> NameL.lname, toks |-> <<DashDash(NameL.lname), Str1("a")>>],
      [about |-> Empty, toks |-> <<X>>],
      [about |-> Empty, toks |-> <<Empty>>] }

Declared(cs, long) ==
    \E n \in Nodes(cs) : \E k \in 1..Len(cs[n].args) : cs[n].args[k].lname = long

\* the words that say something to the tree: those about a declared
\* argument or about none, and the names of the declared commands
RelevantWords(cs) ==
    {w.toks : w \in {v \in Words : v.about = Empty \/ Declared(cs, v.about)}}
    \cup {<<cs[n].name>> : n \in Nodes(cs) \ {Root}}

WordLists(cs, most) ==
    UNION {[1..j -> RelevantWords(cs)] : j \in 0..most}

Size == NumDecls(cmds) + spent

NoUsage == [n |-> 0, err |-> Nil, out |-> Nil]

Init ==
    /\ cmds = NewParser(ParserName, Description)
    /\ pc = "build"
    /\ mem = [caller |-> <<>>, sub |-> <<>>]
    /\ input = <<>>
    /\ inner = Nil
    /\ result = Nil
    /\ usage = NoUsage
    /\ decls = {}
    /\ spent = 0
    /\ reached = <<>>
    /\ events = <<>>

Decl(o, kind, nm, opts, options) ==
    [cmd |-> o, kind |-> kind, sname |-> nm.sname, lname |-> nm.lname,
     opts |-> opts, options |-> options]

CallNewCommand ==
    /\ pc = "build" /\ Size < MaxSize
    /\ \E o \in Nodes(cmds), name \in CommandNames :
          cmds' = NewCommand(cmds, o, name, Description)
    /\ UNCHANGED <<pc, mem, input, inner, result, usage, decls, spent, reached, events>>

CallFlag ==
    /\ pc = "build" /\ Size < MaxSize
    /\ \E o \in Nodes(cmds), nm \in FlagNames, opts \in {Nil} :
          /\ CanAddArg(cmds, o, nm)
          /\ cmds' = Flag(cmds, o, nm.sname, nm.lname, opts)
          /\ decls' = decls \cup {Decl(o, "Flag", nm, opts, <<>>)}
    /\ UNCHANGED <<pc, mem, input, inner, result, usage, spent, reached, events>>

CallString ==
    /\ pc = "build" /\ Size < MaxSize
    /\ \E o \in Nodes(cmds), nm \in StringNames,
          opts \in {Nil, MkOptions(FALSE, "rejectY")} :
          /\ CanAddArg(cmds, o, nm)
          /\ cmds' = String(cmds, o, nm.sname, nm.lname, opts)
          /\ decls' = decls \cup {Decl(o, "String", nm, opts, <<>>)}
    /\ UNCHANGED <<pc, mem, input, inner, result, usage, spent, reached, events>>

CallFile ==
    /\ pc = "build" /\ Size < MaxSize
    /\ \E o \in Nodes(cmds), nm \in FileNames, flag \in {0}, perm \in {0}, opts \in {Nil} :
          /\ CanAddArg(cmds, o, nm)
          /\ cmds' = File(cmds, o, nm.sname, nm.lname, flag, perm, opts)
          /\ decls' = decls \cup {Decl(o, "File", nm, opts, <<>>)}
    /\ UNCHANGED <<pc, mem, input, inner, result, usage, spent, reached, events>>

CallList ==
    /\ pc = "build" /\ Size < MaxSize
    /\ \E o \in Nodes(cmds), nm \in ListNames,
          opts \in {Nil, MkOptions(TRUE, NoValidate), MkOptions(FALSE, "rejectY")} :
          /\ CanAddArg(cmds, o, nm)
          /\ cmds' = List(cmds, o, nm.sname, nm.lname, opts)
          /\ decls' = decls \cup {Decl(o, "List", nm, opts, <<>>)}
    /\ UNCHANGED <<pc, mem, input, inner, result, usage, spent, reached, events>>

CallSelector ==
    /\ pc = "build" /\ Size < MaxSize
    /\ \E o \in Nodes(cmds), nm \in SelectorNames,
          opts \in {Nil, MkOptions(TRUE, NoValidate), MkOptions(FALSE, "rejectY")} :
          /\ CanAddArg(cmds, o, nm)
          /\ cmds' = Selector(cmds, o, nm.sname, nm.lname, Domain, opts)
          /\ decls' = decls \cup {Decl(o, "Selector", nm, opts, Domain)}
    /\ UNCHANGED <<pc, mem, input, inner, result, usage, spent, reached, events>>

CallParse ==
    /\ pc = "build"
    /\ \E ws \in WordLists(cmds, MaxSize - Size) :
          LET args == Flatten(ws)
              r == Parse(cmds, [caller |-> args, sub |-> <<>>])
          IN /\ cmds' = r.cmds
             /\ mem' = r.mem
             /\ input' = args
             /\ inner' = r.inner
             /\ result' = r.err
             /\ reached' = r.path
             /\ events' = r.log
             /\ spent' = spent + Len(ws)
    /\ pc' = "parsed"
    /\ UNCHANGED <<usage, decls>>

UsageErrors ==
    {Nil, result, TooManyArguments, subCommandError(0)}
    \cup {subCommandError(s) : s \in Nodes(cmds)}

CallUsage ==
    /\ pc \in {"build", "parsed"} /\ Size < MaxSize
    /\ \E n \in Nodes(cmds), e \in UsageErrors :
          usage' = [n |-> n, err |-> e, out |-> Usage(cmds, n, e)]
    /\ pc' = "usage"
    /\ spent' = spent + 1
    /\ UNCHANGED <<cmds, mem, input, inner, result, decls, reached, events>>

Next ==
    \/ CallNewCommand
    \/ CallFlag
    \/ CallString
    \/ CallFile
    \/ CallList
    \/ CallSelector
    \/ CallParse
    \/ CallUsage

Spec == Init /\ [][Next]_vars

\* ================================================================ claims
Parsed == pc = "parsed"

AllRefs == UNION {{<<n, k>> : k \in 1..Len(cmds[n].args)} : n \in Nodes(cmds)}

\* the declaration call that made the descriptor
DeclOf(ref) ==
    CHOOSE d \in decls : d.cmd = ref[1] /\ d.lname = ArgAt(cmds, ref).lname

DeclRequired(ref) == DeclOf(ref).opts # Nil /\ DeclOf(ref).opts.Required
DeclValidate(ref) ==
    IF DeclOf(ref).opts = Nil THEN NoValidate ELSE DeclOf(ref).opts.Validate

Cell(ref) == ArgAt(cmds, ref).result

OnPath(n) == \E i \in 1..Len(reached) : reached[i] = n
PathIndex(n) == CHOOSE i \in 1..Len(reached) : reached[i] = n

\* no token of the list is the long form or the short form of the
\* descriptor, or a run of short letters that has its letter
NoTokenNames(ref) ==
    LET a == ArgAt(cmds, ref)
    IN \A k \in 1..Len(input) :
          /\ input[k] # DashDash(a.lname)
          /\ a.sname # Empty =>
                ~(Len(input[k]) >= 2 /\ input[k][1] = "-" /\ input[k][2] # "-"
                  /\ \E j \in 2..Len(input[k]) : input[k][j] = a.sname[1])

\* the examined tokens that were resolved to the descriptor, in order
EventsOf(ref) ==
    SelectSeq(events, LAMBDA e : \E j \in 1..Len(e.refs) : e.refs[j] = ref)

\* the value that follows the token of an event
ValueAt(e) == input[e.pos + 1]

IsLastEvent(e) == events[Len(events)] = e

ScanAborted ==
    result.kind \in {"validatorError", "invalidSelectorValue", "resourceOpenFailed"}

\* C1 (as stated): a required argument on a reached scope that no token
\* names makes Parse return the missing-required-argument error for that
\* argument's scope and long name, whatever else was matched.
C1_AsStated ==
    Parsed =>
      \A ref \in AllRefs :
        (DeclRequired(ref) /\ OnPath(ref[1]) /\ NoTokenNames(ref))
          => result = MissingRequiredArgument(ref[1], ArgAt(cmds, ref).lname)

\* C1 (amended): a required argument on a reached scope that was not matched
\* makes Parse fail, and the error is the missing-required-argument error for
\* that argument unless an earlier violation ended the parse: a validator or
\* selector-value error during a scan, an error of a deeper scope of the
\* path, or a required argument declared before it on the same scope.
C1_RequiredUnmatchedFails ==
    Parsed =>
      \A ref \in AllRefs :
        (DeclRequired(ref) /\ OnPath(ref[1]) /\ ~ArgAt(cmds, ref).parsed)
          => \/ ScanAborted
             \/ /\ result.kind = "subCommandError"
                /\ OnPath(result.cmd)
                /\ PathIndex(result.cmd) > PathIndex(ref[1])
             \/ /\ result.kind = "missingRequiredArgument"
                /\ OnPath(result.scope)
                /\ PathIndex(result.scope) > PathIndex(ref[1])
             \/ /\ result.kind = "missingRequiredArgument"
                /\ result.scope = ref[1]
                /\ \E k \in 1..ref[2] :
                      /\ cmds[ref[1]].args[k].lname = result.name
                      /\ DeclRequired(<<ref[1], k>>)
                      /\ ~cmds[ref[1]].args[k].parsed

C1_Witness ==
    /\ Parsed
    /\ \E ref \in AllRefs :
          /\ DeclRequired(ref) /\ OnPath(ref[1]) /\ NoTokenNames(ref)
          /\ result = MissingRequiredArgument(ref[1], ArgAt(cmds, ref).lname)
          /\ \E other \in AllRefs :
                ~DeclRequired(other) /\ ArgAt(cmds, other).parsed

NoChildNamed(n) ==
    \A k \in 1..Len(input) : \A j \in 1..Len(cmds[n].commands) :
        input[k] # cmds[cmds[n].commands[j]].name

\* C2 (as stated): a reached scope with child commands none of which is
\* named by a token makes Parse return the missing-sub-command error that
\* refers to that scope.

C2_AsStated ==
    Parsed =>
      \A n \in Nodes(cmds) :
        (OnPath(n) /\ cmds[n].commands # <<>> /\ NoChildNamed(n))
          => result = subCommandError(n)

\* C2 (amended): such a scope is the last of the path and Parse returns the
\* missing-sub-command error that refers to it, unless a validator or
\* selector-value error ended its scan or one of its own required arguments
\* is unmatched (that error is reported first).
C2_MissingSubCommand ==
    Parsed =>
      \A n \in Nodes(cmds) :
        (OnPath(n) /\ cmds[n].commands # <<>> /\ NoChildNamed(n))
          => /\ reached[Len(reached)] = n
             /\ \/ result = subCommandError(n)
                \/ ScanAborted
                \/ /\ result.kind = "missingRequiredArgument"
                   /\ result.scope = n
                   /\ \E k \in 1..Len(cmds[n].args) :
                         /\ cmds[n].args[k].lname = result.name
                         /\ DeclRequired(<<n, k>>)
                         /\ ~cmds[n].args[k].parsed

C2_Witness ==
    /\ Parsed
    /\ \E n \in Nodes(cmds) \ {Root} :
          /\ OnPath(n) /\ cmds[n].commands # <<>> /\ NoChildNamed(n)
          /\ result = subCommandError(n)
          /\ Len(input) >= 2

\* C3: Parse returns too-many-arguments exactly when the recursive parse
\* succeeded and a non-empty token is left in the working buffer; an error of
\* the recursive parse is returned as it is; empty tokens never count; a
\* leading token that matches nothing fails an otherwise successful parse.
C3_TooManyArguments ==
    Parsed =>
      /\ (result = TooManyArguments) <=>
            (inner = Nil /\ \E k \in 1..Len(mem.sub) : mem.sub[k] # Empty)
      /\ inner # Nil => result = inner
      /\ (inner = Nil /\ \E k \in 1..Len(input) :
                            input[k] = X /\ (k = 1 \/ input[k - 1] = Empty))
            => result = TooManyArguments

C3_Witness ==
    /\ Parsed
    /\ result = TooManyArguments
    /\ \E k \in 1..Len(input) : input[k] = Empty
    /\ \E k \in 1..Len(input) : input[k] # Empty /\ mem.sub[k] = Empty

C3_WitnessNoLeftover ==
    /\ Parsed
    /\ result = Nil
    /\ \E k \in 1..Len(input) : input[k] = Empty
    /\ \E k \in 1..Len(input) : input[k] # Empty /\ mem.sub[k] = Empty

ZeroCell(ref) ==
    IF DeclOf(ref).kind = "Flag" THEN FALSE
    ELSE IF DeclOf(ref).kind = "File" THEN NoFile
    ELSE <<>>

\* the path is a chain of parent links from the root, each step taken on a
\* token that is the child's name, and it ends at a node without children
IsChain ==
    /\ reached # <<>> /\ reached[1] = Root
    /\ cmds[reached[Len(reached)]].commands = <<>>
    /\ \A i \in 2..Len(reached) :
          /\ cmds[reached[i]].parent = reached[i - 1]
          /\ \E j \in 1..Len(events) :
                /\ events[j].cmd = reached[i] /\ events[j].scope = reached[i - 1]
                /\ input[events[j].pos] = cmds[reached[i]].name

\* C4: before Parse no node has happened; after a successful Parse exactly
\* the nodes of the chain selected by the matched sub-command names have
\* happened, and every cell of an argument of a node that did not happen
\* still holds its zero value.
C4_Happened ==
    /\ pc = "build" => \A n \in Nodes(cmds) : ~Happened(cmds, n)
    /\ (Parsed /\ result = Nil) =>
          /\ IsChain
          /\ \A n \in Nodes(cmds) : Happened(cmds, n) <=> OnPath(n)
          /\ \A ref \in AllRefs : ~Happened(cmds, ref[1]) => Cell(ref) = ZeroCell(ref)

C4_Witness ==
    /\ Parsed /\ result = Nil /\ Len(reached) >= 2
    /\ \E n \in Nodes(cmds) :
          ~Happened(cmds, n) /\ (cmds[n].args # <<>> \/ ~OnPath(cmds[n].parent))

DeclArity(ref) == IF DeclOf(ref).kind = "Flag" THEN 0 ELSE 1
ValuesAt(ref, e) == SubSeq(input, e.pos + 1, e.pos + DeclArity(ref))
DeclAccepts(ref, e) ==
    DeclOf(ref).kind = "Selector" =>
        \E k \in 1..Len(DeclOf(ref).options) : DeclOf(ref).options[k] = ValueAt(e)
\* the matches of the descriptor: its examined tokens, less those a selector
\* refused for their value
AcceptedEventsOf(ref) == SelectSeq(EventsOf(ref), LAMBDA e : DeclAccepts(ref, e))

\* what every match of a validated argument must show when the validator
\* fails: the parse stopped there, Parse returned the validator's own error,
\* and no later token was touched
ValidatorFailureAborts(ref, e) ==
    LET verdict == RunValidate(DeclValidate(ref), ValuesAt(ref, e))
    IN verdict # Nil =>
          /\ IsLastEvent(e)
          /\ result = verdict
          /\ \A k \in (e.pos + DeclArity(ref) + 1)..Len(input) : mem.sub[k] = input[k]

SelectorRefuses(ref, e) ==
    ~DeclAccepts(ref, e) =>
          /\ IsLastEvent(e)
          /\ result.kind = "invalidSelectorValue"
          /\ result.name = ArgAt(cmds, ref).lname
          /\ result.value = ValueAt(e)
          /\ Cell(ref) # ValueAt(e)

RECURSIVE CountNaming(_, _)
CountNaming(toks, a) ==
    IF toks = <<>> THEN 0
    ELSE (IF Head(toks) = DashDash(a.lname) \/ Head(toks) = Dash(a.sname) THEN 1 ELSE 0)
         + CountNaming(Tail(toks), a)

DeclaredOnce(long) ==
    Cardinality({r \in AllRefs : ArgAt(cmds, r).lname = long}) = 1

\* C7: after a successful Parse the cell of a List argument is the sequence
\* of the values of its occurrences in the token list, one per occurrence,
\* in their order (and empty if it never occurs).
C7_List ==
    (Parsed /\ result = Nil) =>
      \A ref \in AllRefs :
        DeclOf(ref).kind = "List" =>
          /\ Cell(ref) = [j \in 1..Len(EventsOf(ref)) |-> ValueAt(EventsOf(ref)[j])]
          /\ \A j \in 1..Len(EventsOf(ref)) - 1 :
                EventsOf(ref)[j].pos < EventsOf(ref)[j + 1].pos
          /\ DeclaredOnce(ArgAt(cmds, ref).lname) =>
                Len(Cell(ref)) = CountNaming(input, ArgAt(cmds, ref))

C7_Witness ==
    /\ Parsed /\ result = Nil
    /\ \E ref \in AllRefs : DeclOf(ref).kind = "List" /\ Cell(ref) = <<X, Y>>

LettersOf(tok) == SubSeq(tok, 2, Len(tok))

\* C8: a token of two or more short letters is all or nothing: if every
\* letter is the short name of a Flag visible at the scope, every one of
\* those cells is true and the token is consumed; otherwise the token stays
\* in the buffer and sets no flag.
C8_CombinedFlags ==
    Parsed =>
      \A i \in 1..Len(events) :
        LET e == events[i]
            letters == LettersOf(input[e.pos])
            ref(k) == lookupShort(cmds, e.scope, letters[k])
            isFlag(k) == ref(k) # <<>> /\ DeclOf(ref(k)).kind = "Flag"
        IN (e.cmd = 0 /\ IsCombined(input[e.pos])) =>
              IF \A k \in 1..Len(letters) : isFlag(k)
              THEN /\ \A k \in 1..Len(letters) : Cell(ref(k)) = TRUE
                   /\ mem.sub[e.pos] = Empty
              ELSE /\ mem.sub[e.pos] = input[e.pos]
                   /\ \A k \in 1..Len(letters) :
                         (isFlag(k) /\ Cell(ref(k)) = TRUE) =>
                            \E j \in 1..Len(events) :
                               /\ j # i
                               /\ \E q \in 1..Len(events[j].refs) :
                                     events[j].refs[q] = ref(k)

C8_Witness ==
    /\ Parsed
    /\ \E i, j \in 1..Len(events) :
          /\ IsCombined(input[events[i].pos]) /\ IsCombined(input[events[j].pos])
          /\ Len(events[i].refs) >= 2 /\ mem.sub[events[i].pos] = Empty
          /\ events[j].refs = <<>> /\ mem.sub[events[j].pos] = input[events[j].pos]

\* C9: Usage called on any node with a missing-sub-command error that refers
\* to a scope returns what that scope's Usage(nil) returns; with any other
\* error it renders the node it was called on: the command chain from the
\* root down to it and the arguments of the node and of its ancestors.
C9_Usage ==
    pc = "usage" =>
      LET n == usage.n
          e == usage.err
          up == UpChain(cmds, n)
      IN IF e.kind = "subCommandError" /\ e.cmd # 0
         THEN usage.out = Usage(cmds, e.cmd, Nil)
         ELSE /\ Len(usage.out.chain) >= Len(up)
              /\ \A k \in 1..Len(up) :
                    usage.out.chain[Len(up) + 1 - k] = cmds[up[k]].name
              /\ {a.lname : a \in {usage.out.Arguments[k] :
                                     k \in 1..Len(usage.out.Arguments)}}
                   = {ArgAt(cmds, r).lname : r \in {q \in AllRefs :
                                     \E k \in 1..Len(up) : up[k] = q[1]}}
              /\ usage.out.description = cmds[n].description

C9_Witness ==
    /\ pc = "usage"
    /\ usage.err = result
    /\ result.kind = "subCommandError"
    /\ result.cmd \notin {0, Root, usage.n}
    /\ usage.out.chain[Len(usage.out.chain) - 1] = cmds[result.cmd].name

\* C10: Parse leaves the caller's token slice as it was, whether it succeeds
\* or fails.
C10_CallerSliceUnchanged ==
    Parsed => mem.caller = input

C10_Witness ==
    /\ Parsed
    /\ result # Nil
    /\ \E k \in 1..Len(input) : input[k] # Empty /\ mem.sub[k] = Empty
    /\ mem.caller = input

====
